---- MODULE Spec2Model ----
(***************************************************************************)
(* A model of QCodeEditor (src/src/internal/QCodeEditor.cpp): the bracket  *)
(* balance scan behind updateExtraSelection and the key press handler that *)
(* implements tab replacement, auto-indentation and auto-pairing.          *)
(*                                                                         *)
(* The document is the sequence of its characters; a block separator is    *)
(* the character ParagraphSeparator, and the document always ends with one *)
(* more separator that is not part of `text` (QTextDocument::characterCount *)
(* counts it).  Positions are 0-based as in Qt, sequences 1-based.         *)
(***************************************************************************)
EXTENDS Integers, Sequences, FiniteSets, TLC

VARIABLES
    text,               \* document()->toPlainText(), one string per QChar
    cursor,             \* textCursor().position(), no selection
    m_autoIndentation,
    m_autoParentheses,
    m_replaceTab,
    m_tabReplace,       \* the QString of spaces a Tab is replaced with
    m_syntaxStyle,      \* QSyntaxStyle* (NULL when absent)
    m_highlighter,      \* QStyleSyntaxHighlighter* (NULL when absent)
    lineNumberArea,     \* what m_lineNumberArea was told: [style]
    highlighter,        \* what the highlighter object was told: [style, document]
    palette,            \* the style the widget palette was last taken from
    extraSelections,    \* the list last handed to setExtraSelections
    scan,               \* what the last highlightParenthesis call did
    lastEvent,          \* the handler that ran last, and its input (key or arg)
    status,             \* "ok", "ub" (ran on after a null dereference), "crashed"
    tabStopWidth,       \* QTextEdit::tabStopWidth(), pixels
    averageCharWidth    \* fontMetrics().averageCharWidth(), pixels

vars == << text, cursor, m_autoIndentation, m_autoParentheses, m_replaceTab,
           m_tabReplace, m_syntaxStyle, m_highlighter, lineNumberArea,
           highlighter, palette, extraSelections, scan, lastEvent, status,
           tabStopWidth, averageCharWidth >>

-----------------------------------------------------------------------------
(* Characters and the delimiter table *)

NULL == "nullptr"
NullChar == "QChar()"
ParagraphSeparator == "PS"
Quote == "\""
Space == " "
TabChar == "\t"

parentheses ==
    << << "(", ")" >>,
       << "{", "}" >>,
       << "<", ">" >>,
       << "[", "]" >>,
       << Quote, Quote >> >>

Min(a, b) == IF a < b THEN a ELSE b
Max(a, b) == IF a > b THEN a ELSE b
Abs(a) == IF a < 0 THEN -a ELSE a

-----------------------------------------------------------------------------
(* The document API the editor calls *)

characterCount(t) == Len(t) + 1

characterAt(t, pos) ==
    IF pos < 0 \/ pos >= characterCount(t) THEN NullChar
    ELSE IF pos = Len(t) THEN ParagraphSeparator
    ELSE t[pos + 1]

\* First position of the block holding position c.
blockStart(t, c) ==
    LET starts == {i \in 0..c : i = 0 \/ t[i] = ParagraphSeparator}
    IN  CHOOSE i \in starts : \A j \in starts : j <= i

\* Position of the separator ending the block holding position c.
blockEnd(t, c) ==
    LET ends == {j \in c..Len(t) : j = Len(t) \/ t[j + 1] = ParagraphSeparator}
    IN  CHOOSE j \in ends : \A k \in ends : j <= k

blockText(t, c) == SubSeq(t, blockStart(t, c) + 1, blockEnd(t, c))

positionInBlock(t, c) == c - blockStart(t, c)

\* insertPlainText(s) with no selection: s goes in at the cursor, which ends after it.
insertPlainText(t, c, s) ==
    [text |-> SubSeq(t, 1, c) \o s \o SubSeq(t, c + 1, Len(t)),
     cursor |-> c + Len(s)]

\* QTextCursor::deletePreviousChar on a cursor without selection.
deletePreviousChar(t, c) ==
    IF c = 0 THEN [text |-> t, cursor |-> c]
    ELSE [text |-> SubSeq(t, 1, c - 1) \o SubSeq(t, c + 1, Len(t)),
          cursor |-> c - 1]

\* QTextCursor::movePosition(Left/Right, mode, n): stops at the document's ends.
movePosition(t, pos, delta) == Max(0, Min(Len(t), pos + delta))

Fill(ch, n) == [i \in 1..n |-> ch]

QCodeEditor_getCharUnderCursor(t, c, offset) ==
    LET txt == blockText(t, c)
        index == positionInBlock(t, c) + offset
    IN  IF index < 0 \/ index >= Len(txt) THEN NullChar ELSE txt[index + 1]

-----------------------------------------------------------------------------
(* Collaborators *)

DefaultStyle == "defaultStyle"
CustomStyle == "customStyle"
TheHighlighter == "highlighter"

\* QTextEdit::isReadOnly(): nothing in the editor makes the widget read-only.
isReadOnly == FALSE

\* m_syntaxStyle->getFormat(name); through a null pointer the value is indeterminate.
getFormat(style, name) ==
    IF style = NULL THEN "indeterminate" ELSE << style, name >>

-----------------------------------------------------------------------------
(* highlightParenthesis *)

\* The pair the loop over `parentheses` stops at (0: every pair is skipped).
SelectedPair(currentSymbol, prevSymbol) ==
    LET hit == {i \in 1..Len(parentheses) :
                    \/ parentheses[i][1] = currentSymbol
                    \/ parentheses[i][2] = prevSymbol}
    IN  IF hit = {} THEN 0 ELSE CHOOSE i \in hit : \A j \in hit : i <= j

PairDirection(pair, currentSymbol) ==
    IF parentheses[pair][1] = currentSymbol THEN 1 ELSE -1

\* The loop condition letting the scan take one step more at the document's end.
ScanContinueOffByOne(t, position, counter) ==
    /\ counter # 0
    /\ position > 0
    /\ position <= characterCount(t) - 1

\* The condition of the while loop.
ScanContinue(t, position, counter) ==
    /\ counter # 0
    /\ position > 0
    /\ position < characterCount(t) - 1

\* The counter update without the count of nested delimiters.
CounterStepNoNesting(character, activeSymbol, counterSymbol, counter) ==
    IF character = counterSymbol THEN counter - 1 ELSE counter

\* The loop body's update of the counter.
CounterStep(character, activeSymbol, counterSymbol, counter) ==
    IF character = activeSymbol THEN counter + 1
    ELSE IF character = counterSymbol THEN counter - 1
    ELSE counter

RECURSIVE ScanLoop(_, _, _, _, _, _, _)
ScanLoop(t, position, counter, direction, activeSymbol, counterSymbol, reads) ==
    IF ScanContinue(t, position, counter)
    THEN LET next == position + direction
             character == characterAt(t, next)
         IN  ScanLoop(t, next,
                      CounterStep(character, activeSymbol, counterSymbol, counter),
                      direction, activeSymbol, counterSymbol, reads \cup {next})
    ELSE [position |-> position, counter |-> counter, reads |-> reads]

NoScan ==
    [pair |-> 0, direction |-> 0, origin |-> 0, position |-> 0, counter |-> 1,
     reads |-> {}]

\* The two selections appended when the counter reached zero.
FoundSelections(t, c, direction, position, format) ==
    LET at == movePosition(t, c, direction * Abs(c - position))
    IN  << [format |-> format, fullWidth |-> FALSE,
            anchor |-> at, position |-> movePosition(t, at, 1)],
           [format |-> format, fullWidth |-> FALSE,
            anchor |-> c, position |-> movePosition(t, c, direction)] >>

QCodeEditor_highlightParenthesis(t, c, style) ==
    LET currentSymbol == QCodeEditor_getCharUnderCursor(t, c, 0)
        prevSymbol == QCodeEditor_getCharUnderCursor(t, c, -1)
        pair == SelectedPair(currentSymbol, prevSymbol)
    IN  IF pair = 0
        THEN [scan |-> NoScan, selections |-> << >>, deref |-> FALSE]
        ELSE LET direction == PairDirection(pair, currentSymbol)
                 counterSymbol == IF direction = 1 THEN parentheses[pair][2]
                                                   ELSE parentheses[pair][1]
                 activeSymbol == IF direction = 1 THEN currentSymbol ELSE prevSymbol
                 origin == IF direction = 1 THEN c ELSE c - 1
                 end == ScanLoop(t, origin, 1, direction, activeSymbol,
                                 counterSymbol, {})
                 format == getFormat(style, "Parenthesis")
             IN  [scan |-> [pair |-> pair, direction |-> direction,
                            origin |-> origin, position |-> end.position,
                            counter |-> end.counter, reads |-> end.reads],
                  selections |->
                      IF end.counter = 0
                      THEN FoundSelections(t, c, direction, end.position, format)
                      ELSE << >>,
                  deref |-> (style = NULL)]

QCodeEditor_highlightCurrentLine(c, style) ==
    IF ~isReadOnly
    THEN [selections |-> << [format |-> getFormat(style, "CurrentLine"),
                             fullWidth |-> TRUE, anchor |-> c, position |-> c] >>,
          deref |-> (style = NULL)]
    ELSE [selections |-> << >>, deref |-> FALSE]

QCodeEditor_updateExtraSelection(t, c, style) ==
    LET line == QCodeEditor_highlightCurrentLine(c, style)
        paren == QCodeEditor_highlightParenthesis(t, c, style)
    IN  [extra |-> line.selections \o paren.selections,
         scan |-> paren.scan,
         deref |-> (line.deref \/ paren.deref)]

\* What a handler that dereferenced a null collaborator can end as.
Outcomes(deref) == IF deref THEN {"crashed", "ub"} ELSE {status}

-----------------------------------------------------------------------------
(* Construction *)

TabReplaceDefault == 4
TabStopWidthDefault == 80
AverageCharWidthDefault == 8

\* The members as the constructor leaves them.
Constructed ==
    /\ cursor = 0
    /\ m_highlighter = NULL
    /\ m_syntaxStyle = DefaultStyle
    /\ m_autoIndentation = TRUE
    /\ m_autoParentheses = TRUE
    /\ m_replaceTab = TRUE
    /\ m_tabReplace = Fill(Space, TabReplaceDefault)
    /\ lineNumberArea = [style |-> DefaultStyle]
    /\ highlighter = [style |-> NULL, document |-> NULL]
    /\ palette = DefaultStyle
    /\ extraSelections = << >>
    /\ scan = NoScan
    /\ lastEvent = [handler |-> "QCodeEditor", key |-> "", arg |-> 0]
    /\ status = "ok"

QCodeEditor_QCodeEditor ==
    /\ text = << >>
    /\ Constructed
    /\ tabStopWidth = TabStopWidthDefault
    /\ averageCharWidth = AverageCharWidthDefault

-----------------------------------------------------------------------------
(* Cursor movement: cursorPositionChanged is connected to updateExtraSelection *)

CursorMoved(p) ==
    /\ status # "crashed"
    /\ p \in 0..Len(text)
    /\ p # cursor
    /\ LET r == QCodeEditor_updateExtraSelection(text, p, m_syntaxStyle)
       IN  \E o \in Outcomes(r.deref) :
               /\ status' = o
               /\ lastEvent' = [handler |-> "updateExtraSelection", key |-> "", arg |-> 0]
               /\ IF o = "crashed"
                  THEN UNCHANGED << cursor, extraSelections, scan >>
                  ELSE /\ cursor' = p
                       /\ extraSelections' = r.extra
                       /\ scan' = r.scan
    /\ UNCHANGED << text, m_autoIndentation, m_autoParentheses, m_replaceTab,
                    m_tabReplace, m_syntaxStyle, m_highlighter, lineNumberArea,
                    highlighter, palette, tabStopWidth, averageCharWidth >>

-----------------------------------------------------------------------------
(* keyPressEvent *)

\* QKeyEvent::text() of the keys modelled: "Tab", "Return", or a character key.
KeyText(key) ==
    IF key = "Tab" THEN TabChar ELSE IF key = "Return" THEN "\r" ELSE key

\* A step of the handler that edits the document or moves the cursor: the
\* trail keeps the states at which cursorPositionChanged was emitted.
Step(s, r) ==
    [text |-> r.text, cursor |-> r.cursor,
     trail |-> IF r.cursor # s.cursor
               THEN Append(s.trail, [text |-> r.text, cursor |-> r.cursor])
               ELSE s.trail]

\* QTextEdit::keyPressEvent for these keys: the character typed goes in at the
\* cursor; Return starts a new block.
QTextEdit_keyPressEvent(s, key) ==
    LET ch == IF key = "Tab" THEN TabChar
              ELSE IF key = "Return" THEN ParagraphSeparator ELSE key
    IN  Step(s, insertPlainText(s.text, s.cursor, << ch >>))

\* QTextEdit::moveCursor(Left) and (Right).
moveCursor(s, delta) ==
    Step(s, [text |-> s.text, cursor |-> movePosition(s.text, s.cursor, delta)])

\* The measuring loop counting a tab as one column.
RECURSIVE IndentationLevelTabAsOne(_, _, _)
IndentationLevelTabAsOne(txt, i, level) ==
    IF i <= Len(txt) /\ txt[i] \in {TabChar, Space}
    THEN IndentationLevelTabAsOne(txt, i + 1, level + 1)
    ELSE level

\* The loop measuring the leading run of tabs and spaces of the block's text.
RECURSIVE IndentationLevel(_, _, _)
IndentationLevel(txt, i, level) ==
    IF i <= Len(txt) /\ txt[i] \in {TabChar, Space}
    THEN IndentationLevel(txt, i + 1,
             IF txt[i] = Space THEN level + 1
             ELSE level + (tabStopWidth \div averageCharWidth))
    ELSE level

\* The row of `parentheses` the auto-pairing loop stops at (0: none).
PairedRow(keyText) ==
    LET hit == {i \in 1..Len(parentheses) :
                    \/ parentheses[i][1] = keyText
                    \/ parentheses[i][2] = keyText}
    IN  IF hit = {} THEN 0 ELSE CHOOSE i \in hit : \A j \in hit : i <= j

\* The auto-pairing that leaves the cursor after the closing delimiter it inserted.
AutoParenthesesNoMoveLeft(s, keyText) ==
    LET row == PairedRow(keyText)
    IN  IF row = 0 THEN s
        ELSE IF parentheses[row][1] = keyText
        THEN Step(s, insertPlainText(s.text, s.cursor, << parentheses[row][2] >>))
        ELSE IF QCodeEditor_getCharUnderCursor(s.text, s.cursor, 0) = parentheses[row][2]
        THEN moveCursor(Step(s, deletePreviousChar(s.text, s.cursor)), 1)
        ELSE s

\* The body of `if (m_autoParentheses)`.
AutoParentheses(s, keyText) ==
    LET row == PairedRow(keyText)
    IN  IF row = 0 THEN s
        ELSE IF parentheses[row][1] = keyText
        THEN moveCursor(
                 Step(s, insertPlainText(s.text, s.cursor, << parentheses[row][2] >>)),
                 -1)
        ELSE IF QCodeEditor_getCharUnderCursor(s.text, s.cursor, 0) = parentheses[row][2]
        THEN moveCursor(Step(s, deletePreviousChar(s.text, s.cursor)), 1)
        ELSE s

\* The handler from the auto-indentation comment on.
AfterTabReplace(s, key) ==
    LET indenting == m_autoIndentation /\ key = "Return"
        indentationLevel ==
            IF indenting THEN IndentationLevel(blockText(s.text, s.cursor), 1, 0) ELSE 0
        handled == QTextEdit_keyPressEvent(s, key)
        indented ==
            IF indenting
            THEN Step(handled, insertPlainText(handled.text, handled.cursor,
                                               Fill(Space, indentationLevel)))
            ELSE handled
    IN  IF m_autoParentheses THEN AutoParentheses(indented, KeyText(key)) ELSE indented

\* The tab replacement without its return: the default handling follows.
TabReplaceNoReturn(s) ==
    AfterTabReplace(Step(s, insertPlainText(s.text, s.cursor, m_tabReplace)), "Tab")

\* The tab replacement: the event is ignored, the replacement inserted, and the
\* handler returns.
TabReplace(s) == Step(s, insertPlainText(s.text, s.cursor, m_tabReplace))

QCodeEditor_keyPressEvent(t, c, key) ==
    LET s == [text |-> t, cursor |-> c, trail |-> << >>]
    IN  IF m_replaceTab /\ key = "Tab" THEN TabReplace(s) ELSE AfterTabReplace(s, key)

KeyPressEvent(key) ==
    /\ status # "crashed"
    /\ LET r == QCodeEditor_keyPressEvent(text, cursor, key)
           deref == \E i \in 1..Len(r.trail) :
                        QCodeEditor_updateExtraSelection(
                            r.trail[i].text, r.trail[i].cursor, m_syntaxStyle).deref
           last == QCodeEditor_updateExtraSelection(r.text, r.cursor, m_syntaxStyle)
       IN  \E o \in Outcomes(deref) :
               /\ status' = o
               /\ lastEvent' = [handler |-> "keyPressEvent", key |-> key, arg |-> 0]
               /\ IF o = "crashed"
                  THEN UNCHANGED << text, cursor, extraSelections, scan >>
                  ELSE /\ text' = r.text
                       /\ cursor' = r.cursor
                       /\ IF r.trail = << >>
                          THEN UNCHANGED << extraSelections, scan >>
                          ELSE extraSelections' = last.extra /\ scan' = last.scan
    /\ UNCHANGED << m_autoIndentation, m_autoParentheses, m_replaceTab,
                    m_tabReplace, m_syntaxStyle, m_highlighter, lineNumberArea,
                    highlighter, palette, tabStopWidth, averageCharWidth >>

\* A key press while the document is shorter than `limit` characters.
KeyTyped(key, limit) == Len(text) < limit /\ KeyPressEvent(key)

-----------------------------------------------------------------------------
(* The configuration surface *)

SetAutoParentheses(enabled) ==
    /\ status # "crashed"
    /\ m_autoParentheses' = enabled
    /\ lastEvent' = [handler |-> "setAutoParentheses", key |-> "",
                     arg |-> IF enabled THEN 1 ELSE 0]
    /\ UNCHANGED << text, cursor, m_autoIndentation, m_replaceTab, m_tabReplace,
                    m_syntaxStyle, m_highlighter, lineNumberArea, highlighter,
                    palette, extraSelections, scan, status, tabStopWidth,
                    averageCharWidth >>

SetTabReplace(enabled) ==
    /\ status # "crashed"
    /\ m_replaceTab' = enabled
    /\ lastEvent' = [handler |-> "setTabReplace", key |-> "",
                     arg |-> IF enabled THEN 1 ELSE 0]
    /\ UNCHANGED << text, cursor, m_autoIndentation, m_autoParentheses,
                    m_tabReplace, m_syntaxStyle, m_highlighter, lineNumberArea,
                    highlighter, palette, extraSelections, scan, status,
                    tabStopWidth, averageCharWidth >>

\* QString::clear() then QString::fill(' ', val): a negative size keeps the
\* string's size, which clear() has made 0.
ClearAndFill(val) == IF val < 0 THEN << >> ELSE Fill(Space, val)

SetTabReplaceSize(val) ==
    /\ status # "crashed"
    /\ m_tabReplace' = ClearAndFill(val)
    /\ lastEvent' = [handler |-> "setTabReplaceSize", key |-> "", arg |-> val]
    /\ UNCHANGED << text, cursor, m_autoIndentation, m_autoParentheses,
                    m_replaceTab, m_syntaxStyle, m_highlighter, lineNumberArea,
                    highlighter, palette, extraSelections, scan, status,
                    tabStopWidth, averageCharWidth >>

QCodeEditor_tabReplaceSize == Len(m_tabReplace)

\* updateStyle: rehighlight through the highlighter if there is one, and take
\* the palette from the style if there is one.
UpdateStyle(style) == IF style # NULL THEN style ELSE palette

SetSyntaxStyle(style) ==
    /\ status # "crashed"
    /\ m_syntaxStyle' = style
    /\ lineNumberArea' = [style |-> style]
    /\ highlighter' = IF m_highlighter # NULL
                      THEN [highlighter EXCEPT !.style = style] ELSE highlighter
    /\ palette' = UpdateStyle(style)
    /\ lastEvent' = [handler |-> "setSyntaxStyle", key |-> style, arg |-> 0]
    /\ UNCHANGED << text, cursor, m_autoIndentation, m_autoParentheses,
                    m_replaceTab, m_tabReplace, m_highlighter, extraSelections,
                    scan, status, tabStopWidth, averageCharWidth >>

SetHighlighter(h) ==
    /\ status # "crashed"
    /\ m_highlighter' = h
    /\ highlighter' = IF h # NULL
                      THEN [style |-> m_syntaxStyle, document |-> "document"]
                      ELSE highlighter
    /\ lastEvent' = [handler |-> "setHighlighter", key |-> h, arg |-> 0]
    /\ UNCHANGED << text, cursor, m_autoIndentation, m_autoParentheses,
                    m_replaceTab, m_tabReplace, m_syntaxStyle, lineNumberArea,
                    palette, extraSelections, scan, status, tabStopWidth,
                    averageCharWidth >>

-----------------------------------------------------------------------------
(* Bracket matching over loaded documents *)

MaxMatchLen == 4

MatchAlphabet == {"(", ")", "[", "]", Quote, "a"}

\* The documents the specification quotes, and two that span blocks.
Examples ==
    { << "(", "a", "(", "b", ")", "c", ")" >>,
      << "(", "a", ")", "(", "b", ")" >>,
      << "[", "a", "]", "(", "b", ")" >>,
      << "a", "(", ParagraphSeparator, "(", "a", ")", ParagraphSeparator, ")" >>,
      << "a", Quote, "b", Quote, ParagraphSeparator, Quote >> }

MatchDocuments ==
    Examples \cup UNION {[1..n -> MatchAlphabet] : n \in 0..MaxMatchLen}

InitMatch ==
    /\ text \in MatchDocuments
    /\ Constructed
    /\ tabStopWidth = TabStopWidthDefault
    /\ averageCharWidth = AverageCharWidthDefault

NextMatch == \E p \in 0..Len(text) : CursorMoved(p)

SpecMatch == InitMatch /\ [][NextMatch]_vars

-----------------------------------------------------------------------------
(* Reference notions the matching claims are stated with *)

Brackets == 1..4    \* the rows of `parentheses` whose two delimiters differ

OpenIndex(ch) ==
    IF \E i \in Brackets : parentheses[i][1] = ch
    THEN CHOOSE i \in Brackets : parentheses[i][1] = ch ELSE 0

CloseIndex(ch) ==
    IF \E i \in Brackets : parentheses[i][2] = ch
    THEN CHOOSE i \in Brackets : parentheses[i][2] = ch ELSE 0

\* A left-to-right pass with a stack of the open brackets' positions.
RECURSIVE Nest(_, _, _, _)
Nest(t, i, stack, acc) ==
    IF i > Len(t) THEN [ok |-> stack = << >>, pairs |-> acc]
    ELSE IF OpenIndex(t[i]) # 0 THEN Nest(t, i + 1, << i - 1 >> \o stack, acc)
    ELSE IF CloseIndex(t[i]) # 0
         THEN IF stack = << >> \/ OpenIndex(t[Head(stack) + 1]) # CloseIndex(t[i])
              THEN [ok |-> FALSE, pairs |-> acc]
              ELSE Nest(t, i + 1, Tail(stack), acc \cup {<< Head(stack), i - 1 >>})
         ELSE Nest(t, i + 1, stack, acc)

WellFormed(t) == Nest(t, 1, << >>, {}).ok

\* In a well-formed document, the position of the bracket matching the one at p.
Partner(t, p) ==
    LET pr == CHOOSE x \in Nest(t, 1, << >>, {}).pairs : x[1] = p \/ x[2] = p
    IN  IF pr[1] = p THEN pr[2] ELSE pr[1]

\* Occurrences of ch at the positions from..to of t.
Count(t, ch, from, to) == Cardinality({k \in from..to : characterAt(t, k) = ch})

\* The first q > p at which the closers after p outnumber the openers after p (-1: none).
ForwardMatch(t, p, open, close) ==
    LET qs == {q \in (p + 1)..(Len(t) - 1) :
                   Count(t, close, p + 1, q) = Count(t, open, p + 1, q) + 1}
    IN  IF qs = {} THEN -1 ELSE CHOOSE q \in qs : \A r \in qs : q <= r

\* The last q < p at which the openers before p outnumber the closers before p (-1: none).
BackwardMatch(t, p, open, close) ==
    LET qs == {q \in 0..(p - 1) :
                   Count(t, open, q, p - 1) = Count(t, close, q, p - 1) + 1}
    IN  IF qs = {} THEN -1 ELSE CHOOSE q \in qs : \A r \in qs : q >= r

BracketSelections ==
    {i \in 1..Len(extraSelections) : ~extraSelections[i].fullWidth}

\* The characters the bracket selections cover.
Highlighted ==
    UNION {Min(extraSelections[i].anchor, extraSelections[i].position)
             .. (Max(extraSelections[i].anchor, extraSelections[i].position) - 1) :
           i \in BracketSelections}

\* The selections belong to the present text and cursor.
Updated == lastEvent.handler = "updateExtraSelection" /\ status = "ok"

CharBefore == characterAt(text, cursor - 1)
CharAt == characterAt(text, cursor)

-----------------------------------------------------------------------------
(* Claims about bracket matching, under SpecMatch *)

\* C1: in a well-formed document, with the cursor immediately after an opening
\* bracket, exactly that bracket and its matching closing bracket are highlighted.
C1_CursorAfterOpener ==
    (Updated /\ WellFormed(text) /\ OpenIndex(CharBefore) # 0)
        => Highlighted = {cursor - 1, Partner(text, cursor - 1)}

\* C2 as claimed: in a well-formed document, with the cursor immediately after a
\* closing bracket, exactly that bracket and its matching opening bracket are
\* highlighted, whatever character follows the cursor.
C2_CursorAfterCloser ==
    (Updated /\ WellFormed(text) /\ CloseIndex(CharBefore) # 0)
        => Highlighted = {cursor - 1, Partner(text, cursor - 1)}

\* C2 as amended: the same, provided the character at the cursor is not the
\* opening delimiter of the closing bracket's pair or of a pair listed before it.
C2_CursorAfterCloserNoOpenerAhead ==
    (/\ Updated
     /\ WellFormed(text)
     /\ CloseIndex(CharBefore) # 0
     /\ \A i \in 1..CloseIndex(CharBefore) : parentheses[i][1] # CharAt)
        => /\ Highlighted = {cursor - 1, Partner(text, cursor - 1)}
           /\ Cardinality(BracketSelections) = 2

\* C2's case: the outer closing bracket of a nested pair, matched across the inner pair.
C2_Witness ==
    /\ Updated
    /\ text = << "(", "a", "(", "b", ")", "c", ")" >>
    /\ cursor = 7
    /\ Highlighted = {0, 6}

\* C3: when the scan ends with a nonzero counter, the list holds no bracket
\* selection (at most the current line's), and every position the scan read lies
\* within the document's characters, 0 .. characterCount - 1.
C3_UnmatchedNotHighlighted ==
    (Updated /\ scan.pair # 0 /\ scan.counter # 0)
        => /\ BracketSelections = {}
           /\ Len(extraSelections) <= 1
           /\ scan.reads \subseteq 0..(characterCount(text) - 1)

\* C3's case: an unmatched opening bracket whose scan ran to the document's end.
C3_Witness ==
    /\ Updated
    /\ text = << "a", "(", "(", ")" >>
    /\ cursor = 1
    /\ scan.counter = 1
    /\ scan.reads = {2, 3, 4}
    /\ Len(extraSelections) = 1

\* C9: whenever the character at the cursor, at any offset from 0 on, is an opening
\* bracket with a balanced closing bracket at q (and no closing delimiter precedes
\* the cursor), the scan ends at q with the counter at zero and both are
\* highlighted; and a closing bracket before the cursor (no opening delimiter of
\* its row or an earlier one at the cursor) with a balanced opening bracket at
\* q >= 0 is matched likewise.
C9_ScanFromAnyOffset ==
    /\ (/\ Updated
        /\ OpenIndex(CharAt) # 0
        /\ \A i \in 1..Len(parentheses) : parentheses[i][2] # CharBefore
        /\ ForwardMatch(text, cursor, CharAt, parentheses[OpenIndex(CharAt)][2]) # -1)
           => /\ scan.counter = 0
              /\ scan.position =
                   ForwardMatch(text, cursor, CharAt, parentheses[OpenIndex(CharAt)][2])
              /\ Highlighted = {cursor, scan.position}
    /\ (/\ Updated
        /\ CloseIndex(CharBefore) # 0
        /\ \A i \in 1..CloseIndex(CharBefore) : parentheses[i][1] # CharAt
        /\ BackwardMatch(text, cursor - 1,
                         parentheses[CloseIndex(CharBefore)][1], CharBefore) # -1)
           => /\ scan.counter = 0
              /\ scan.position =
                   BackwardMatch(text, cursor - 1,
                                 parentheses[CloseIndex(CharBefore)][1], CharBefore)
              /\ Highlighted = {cursor - 1, scan.position}

\* C10: with a double quote at the cursor (not at offset 0, no closing delimiter
\* before the cursor) and another double quote later, the scan ends at the nearest
\* following quote with the counter at zero and both quotes are highlighted.
C10_QuoteMatched ==
    (/\ Updated
     /\ cursor > 0
     /\ CharAt = Quote
     /\ \A i \in 1..Len(parentheses) : parentheses[i][2] # CharBefore
     /\ \E q \in (cursor + 1)..(Len(text) - 1) : characterAt(text, q) = Quote)
        => LET q == CHOOSE q \in (cursor + 1)..(Len(text) - 1) :
                        /\ characterAt(text, q) = Quote
                        /\ \A r \in (cursor + 1)..(q - 1) : characterAt(text, r) # Quote
           IN  /\ scan.counter = 0
               /\ scan.position = q
               /\ Highlighted = {cursor, q}

-----------------------------------------------------------------------------
(* Auto-pairing, typed from the empty document *)

MaxPairLen == 2

PairKeys == {parentheses[i][j] : i \in 1..Len(parentheses), j \in 1..2} \cup {"a"}

NextPair ==
    \/ \E key \in PairKeys : KeyTyped(key, MaxPairLen)
    \/ \E p \in 0..Len(text) : CursorMoved(p)
    \/ \E enabled \in BOOLEAN : SetAutoParentheses(enabled)

SpecPair == QCodeEditor_QCodeEditor /\ [][NextPair]_vars

KeyPressed(key) == lastEvent' = [handler |-> "keyPressEvent", key |-> key, arg |-> 0]

Inserted(t, c, s) == SubSeq(t, 1, c) \o s \o SubSeq(t, c + 1, Len(t))

\* C4: a key press whose text is the opening delimiter of a pair puts the opening
\* and the closing delimiter in at the cursor, leaves the rest of the document as
\* it was and the cursor between the two; with auto-pairing disabled only the
\* opening delimiter goes in.
C4_OpenerInsertsPair ==
    [][\A i \in 1..Len(parentheses) :
          KeyPressed(parentheses[i][1]) =>
              /\ text' = Inserted(text, cursor,
                             IF m_autoParentheses
                             THEN << parentheses[i][1], parentheses[i][2] >>
                             ELSE << parentheses[i][1] >>)
              /\ cursor' = cursor + 1]_vars

\* C4's case: an opening delimiter typed between two characters, auto-pairing enabled.
C4_Witness ==
    /\ lastEvent = [handler |-> "keyPressEvent", key |-> "[", arg |-> 0]
    /\ m_autoParentheses
    /\ text = << "[", "]", "a" >>
    /\ cursor = 1

\* C5: with auto-pairing enabled, a key press whose text is the closing delimiter
\* of a pair, made when the character at the cursor is that closing delimiter,
\* leaves the text unchanged and moves the cursor one position right.
C5_CloserTypesOver ==
    [][\A i \in 1..Len(parentheses) :
          (/\ m_autoParentheses
           /\ characterAt(text, cursor) = parentheses[i][2]
           /\ KeyPressed(parentheses[i][2]))
              => text' = text /\ cursor' = cursor + 1]_vars

-----------------------------------------------------------------------------
(* Tab replacement *)

MaxTabLen == 2

\* The sizes passed to setTabReplaceSize: a negative one, and 0 up to the default.
TabReplaceSizes == -1..TabReplaceDefault

TabKeys == {"Tab", "a"}

NextTab ==
    \/ \E key \in TabKeys : KeyTyped(key, MaxTabLen)
    \/ \E p \in 0..Len(text) : CursorMoved(p)
    \/ \E enabled \in BOOLEAN : SetTabReplace(enabled)
    \/ \E enabled \in BOOLEAN : SetAutoParentheses(enabled)
    \/ \E val \in TabReplaceSizes : SetTabReplaceSize(val)

SpecTab == QCodeEditor_QCodeEditor /\ [][NextTab]_vars

\* C7: setTabReplaceSize(w), w >= 0, makes tabReplaceSize() w (4 from construction),
\* no other call changes it, and a Tab key press puts exactly that many spaces and
\* nothing else in at the cursor while tab replacement is enabled, and is handled
\* by default (one tab character, no spaces) while it is disabled.
C7_TabReplacedBySpaces ==
    /\ QCodeEditor_tabReplaceSize = TabReplaceDefault
    /\ [][/\ (lastEvent'.handler = "setTabReplaceSize" /\ lastEvent'.arg >= 0)
               => QCodeEditor_tabReplaceSize' = lastEvent'.arg
          /\ lastEvent'.handler # "setTabReplaceSize"
               => QCodeEditor_tabReplaceSize' = QCodeEditor_tabReplaceSize
          /\ (KeyPressed("Tab") /\ m_replaceTab)
               => /\ text' = Inserted(text, cursor, Fill(Space, QCodeEditor_tabReplaceSize))
                  /\ cursor' = cursor + QCodeEditor_tabReplaceSize
          /\ (KeyPressed("Tab") /\ ~m_replaceTab)
               => /\ text' = Inserted(text, cursor, << TabChar >>)
                  /\ cursor' = cursor + 1]_vars

\* C7's case: a Tab typed after setTabReplaceSize(2) and a toggling of both flags.
C7_Witness ==
    /\ lastEvent = [handler |-> "keyPressEvent", key |-> "Tab", arg |-> 0]
    /\ m_replaceTab
    /\ ~m_autoParentheses
    /\ QCodeEditor_tabReplaceSize = 2
    /\ text = << Space, Space, "a" >>
    /\ cursor = 2

-----------------------------------------------------------------------------
(* Auto-indentation over loaded documents *)

MaxIndentLen == 3

IndentAlphabet == {Space, TabChar, "a"}

\* Pixel widths << tabStopWidth, averageCharWidth >>: Qt's default tab stop with an
\* 8 pixel font, a tab stop of 8 columns, and one that does not divide evenly.
FontMetrics == { << TabStopWidthDefault, AverageCharWidthDefault >>,
                 << 64, 8 >>, << 20, 8 >> }

IndentDocuments ==
    { << Space, Space, Space, Space >> }
        \cup UNION {[1..n -> IndentAlphabet] : n \in 0..MaxIndentLen}

InitIndent ==
    /\ text \in IndentDocuments
    /\ Constructed
    /\ \E fm \in FontMetrics : tabStopWidth = fm[1] /\ averageCharWidth = fm[2]

NextIndent ==
    \/ KeyTyped("Return", MaxIndentLen + 2)
    \/ \E p \in 0..Len(text) : CursorMoved(p)

SpecIndent == InitIndent /\ [][NextIndent]_vars

\* The leading run of spaces and tabs of a line, as a length.
LeadingRun(txt) ==
    LET ks == {k \in 0..Len(txt) : \A i \in 1..k : txt[i] \in {Space, TabChar}}
    IN  CHOOSE k \in ks : \A j \in ks : j <= k

\* n = s + t * (tabStopWidth div averageCharWidth) for the line holding the cursor.
ExpectedIndent ==
    LET txt == blockText(text, cursor)
        run == 1..LeadingRun(txt)
    IN  Cardinality({i \in run : txt[i] = Space})
          + Cardinality({i \in run : txt[i] = TabChar})
              * (tabStopWidth \div averageCharWidth)

\* The line holding the cursor after the step starts right after the separator
\* put in at the old cursor, and its leading run of spaces and tabs is n spaces.
NewLineIndentedBy(n) ==
    LET line == blockText(text', cursor')
    IN  /\ blockStart(text', cursor') = cursor + 1
        /\ text'[cursor + 1] = ParagraphSeparator
        /\ LeadingRun(line) = n
        /\ \A i \in 1..n : line[i] = Space

\* C6 as claimed: with auto-indentation enabled, Return pressed at any cursor
\* position of a line whose leading run is s spaces and t tabs gives a new line
\* beginning with exactly n = s + t * (tabStopWidth div averageCharWidth) spaces.
C6_ReturnIndentsAnywhere ==
    [][(m_autoIndentation /\ KeyPressed("Return")) => NewLineIndentedBy(ExpectedIndent)]_vars

\* C6 as amended: the same, for the cursor positions at which the character at
\* the cursor is neither a space nor a tab.
C6_ReturnIndentsBeforeText ==
    [][(/\ m_autoIndentation
        /\ KeyPressed("Return")
        /\ characterAt(text, cursor) \notin {Space, TabChar})
            => NewLineIndentedBy(ExpectedIndent)]_vars

\* C6's case: Return at the end of a line indented with one tab, tab stop 8 columns.
C6_Witness ==
    /\ lastEvent = [handler |-> "keyPressEvent", key |-> "Return", arg |-> 0]
    /\ m_autoIndentation
    /\ tabStopWidth = 64 /\ averageCharWidth = 8
    /\ text = << TabChar, "a", ParagraphSeparator >> \o Fill(Space, 8)
    /\ cursor = 11

-----------------------------------------------------------------------------
(* The editor as constructed, with every operation *)

MaxLen == 1

Keys == {"(", ")", "a", "Tab", "Return"}

Styles == {NULL, DefaultStyle, CustomStyle}

Init == QCodeEditor_QCodeEditor

Next ==
    \/ \E key \in Keys : KeyTyped(key, MaxLen)
    \/ \E p \in 0..Len(text) : CursorMoved(p)
    \/ \E enabled \in BOOLEAN : SetAutoParentheses(enabled)
    \/ \E enabled \in BOOLEAN : SetTabReplace(enabled)
    \/ \E val \in {0, TabReplaceDefault} : SetTabReplaceSize(val)
    \/ \E style \in Styles : SetSyntaxStyle(style)
    \/ \E h \in {NULL, TheHighlighter} : SetHighlighter(h)

Spec == Init /\ [][Next]_vars

\* C8: whatever styles and highlighters were set, null ones included, no cursor
\* change, style update or key press dereferences an absent collaborator: every
\* handler completes normally.
C8_AbsentCollaboratorSkipped == status = "ok"

====
